---------------------------- MODULE Spec2Model ----------------------------
(***************************************************************************)
(* Model of src/chess_game.py: the material evaluation, the minimax search *)
(* with alpha-beta cutoffs, get_best_move, and the session loop of main(). *)
(*                                                                         *)
(* The rules engine (the `chess` package: board, legal moves, push, pop,   *)
(* is_game_over) is an external collaborator.  It is modelled as chess on  *)
(* a board of Files x Ranks squares: the six piece kinds with their real   *)
(* movement, captures, pawns that step one square and promote on the last  *)
(* rank, legality as "own king not left attacked", checkmate, stalemate    *)
(* and insufficient material.  Castling, en passant, the pawn double step  *)
(* and the history-based draws are left out.                               *)
(***************************************************************************)
EXTENDS Integers, Sequences, FiniteSets, TLC

\* ------------------------------------------------------------------ bounds

\* Board geometry of the modelled rules engine.
Files == 3
Ranks == 3
\* Largest depth get_best_move is called with in the search harness.
MaxDepth == 3
\* Frames the interpreter allows before it raises RecursionError.
RecursionLimit == 6
\* Events one pygame.event.get() delivers at most.
MaxEvents == 2
\* Committed moves after which the session model stops taking events.
MaxPly == 4

\* ------------------------------------------------------- program constants

PAWN == 1
KNIGHT == 2
BISHOP == 3
ROOK == 4
QUEEN == 5
KING == 6
WHITE == TRUE
BLACK == FALSE

\* math.inf: larger than any material score.
Inf == 1000000

PIECE_VALUES ==
    (PAWN :> 100) @@ (KNIGHT :> 320) @@ (BISHOP :> 330) @@
    (ROOK :> 500) @@ (QUEEN :> 900) @@ (KING :> 20000)

PieceTypes == DOMAIN PIECE_VALUES

\* ------------------------------------------------------------ rules engine

Squares == 0 .. (Files * Ranks - 1)

square(file, rank) == rank * Files + file
square_file(s) == s % Files
square_rank(s) == s \div Files

Abs(x) == IF x < 0 THEN -x ELSE x
Sgn(x) == IF x < 0 THEN -1 ELSE IF x > 0 THEN 1 ELSE 0
Max2(a, b) == IF a >= b THEN a ELSE b

\* A piece is a non-zero integer: its absolute value is the piece type, its
\* sign the colour (positive: WHITE).  0 is an empty square (piece_at: None).
Piece(piece_type, color) == IF color = WHITE THEN piece_type ELSE -piece_type
piece_type_of(p) == Abs(p)
color_of(p) == p > 0

\* The Move of the rules engine; promotion 0 is "no promotion piece".
Move(from_square, to_square, promotion) ==
    [from_square |-> from_square, to_square |-> to_square, promotion |-> promotion]

\* Python's None, as the result of get_best_move.
None == Move(-1, -1, 0)

piece_at(b, s) == b.pieces[s]

\* len(board.pieces(piece_type, color))
pieces_count(b, piece_type, color) ==
    Cardinality({s \in Squares : b.pieces[s] = Piece(piece_type, color)})

PathClear(pieces, from, to) ==
    LET df == square_file(to) - square_file(from)
        dr == square_rank(to) - square_rank(from)
        n == Max2(Abs(df), Abs(dr))
        step == Sgn(dr) * Files + Sgn(df)
    IN  \A k \in 1 .. (n - 1) : pieces[from + k * step] = 0

\* The piece on `from` attacks the square `to`.
Attacks(pieces, from, to) ==
    LET p == pieces[from]
        t == Abs(p)
        df == square_file(to) - square_file(from)
        dr == square_rank(to) - square_rank(from)
        adf == Abs(df)
        adr == Abs(dr)
    IN  CASE t = PAWN -> adf = 1 /\ dr = (IF p > 0 THEN 1 ELSE -1)
          [] t = KNIGHT -> (adf = 1 /\ adr = 2) \/ (adf = 2 /\ adr = 1)
          [] t = KING -> Max2(adf, adr) = 1
          [] t = BISHOP -> adf = adr /\ adf > 0 /\ PathClear(pieces, from, to)
          [] t = ROOK -> ((adf = 0) # (adr = 0)) /\ PathClear(pieces, from, to)
          [] t = QUEEN -> (((adf = 0) # (adr = 0)) \/ (adf = adr /\ adf > 0))
                          /\ PathClear(pieces, from, to)
          [] OTHER -> FALSE

is_attacked_by(pieces, color, s) ==
    \E f \in Squares :
        /\ pieces[f] # 0
        /\ color_of(pieces[f]) = color
        /\ Attacks(pieces, f, s)

\* board.is_check() seen from the side `color`: its king is attacked.
in_check(pieces, color) ==
    \E s \in Squares :
        pieces[s] = Piece(KING, color) /\ is_attacked_by(pieces, ~color, s)

LastRank(color) == IF color = WHITE THEN Ranks - 1 ELSE 0

\* The placement after the piece on m.from_square has moved.
MovePieces(pieces, m) ==
    LET p == pieces[m.from_square]
        q == IF m.promotion # 0 THEN Piece(m.promotion, color_of(p)) ELSE p
    IN  [pieces EXCEPT ![m.from_square] = 0, ![m.to_square] = q]

is_pseudo_legal(b, m) ==
    LET p == b.pieces[m.from_square]
        target == b.pieces[m.to_square]
        dr == square_rank(m.to_square) - square_rank(m.from_square)
    IN  /\ p # 0
        /\ color_of(p) = b.turn
        /\ m.from_square # m.to_square
        /\ (target = 0 \/ color_of(target) # b.turn)
        /\ IF piece_type_of(p) = PAWN
           THEN /\ \/ /\ square_file(m.to_square) = square_file(m.from_square)
                      /\ dr = (IF b.turn = WHITE THEN 1 ELSE -1)
                      /\ target = 0
                   \/ /\ Attacks(b.pieces, m.from_square, m.to_square)
                      /\ target # 0
                /\ (m.promotion # 0) = (square_rank(m.to_square) = LastRank(b.turn))
           ELSE /\ m.promotion = 0
                /\ Attacks(b.pieces, m.from_square, m.to_square)

is_legal(b, m) ==
    /\ is_pseudo_legal(b, m)
    /\ ~in_check(MovePieces(b.pieces, m), b.turn)

Promotions == <<0, QUEEN, ROOK, BISHOP, KNIGHT>>

\* Every (from, to, promotion) triple, in the engine's enumeration order.
CandidateMoves ==
    LET n == Files * Ranks
        k == Len(Promotions)
    IN  [i \in 1 .. (n * n * k) |->
            Move((i - 1) \div (n * k), ((i - 1) \div k) % n, Promotions[((i - 1) % k) + 1])]

\* board.legal_moves, as the ordered sequence its iteration yields.
legal_moves(b) == SelectSeq(CandidateMoves, LAMBDA m : is_legal(b, m))

has_legal_move(b) == \E i \in DOMAIN CandidateMoves : is_legal(b, CandidateMoves[i])

\* `move in board.legal_moves`
in_legal_moves(b, m) == m.from_square \in Squares /\ m.to_square \in Squares /\ is_legal(b, m)

count_of(pieces, color) == Cardinality({s \in Squares : pieces[s] # 0 /\ color_of(pieces[s]) = color})

has_kind(pieces, color, kinds) ==
    \E s \in Squares : pieces[s] # 0 /\ color_of(pieces[s]) = color /\ Abs(pieces[s]) \in kinds

has_insufficient_material(pieces, color) ==
    IF has_kind(pieces, color, {PAWN, ROOK, QUEEN}) THEN FALSE
    ELSE IF has_kind(pieces, color, {KNIGHT})
         THEN /\ count_of(pieces, color) <= 2
              /\ ~has_kind(pieces, ~color, {PAWN, KNIGHT, BISHOP, ROOK})
    ELSE IF has_kind(pieces, color, {BISHOP})
         THEN LET bishops == {s \in Squares : Abs(pieces[s]) = BISHOP}
                  dark(s) == (square_file(s) + square_rank(s)) % 2 = 0
              IN  /\ (\A s \in bishops : dark(s)) \/ (\A s \in bishops : ~dark(s))
                  /\ \A s \in Squares : Abs(pieces[s]) \notin {PAWN, KNIGHT}
    ELSE TRUE

is_insufficient_material(b) ==
    has_insufficient_material(b.pieces, WHITE) /\ has_insufficient_material(b.pieces, BLACK)

\* board.is_game_over(): checkmate, stalemate or insufficient material.
is_game_over(b) == is_insufficient_material(b) \/ ~has_legal_move(b)

\* board.push(move)
push(b, m) ==
    [pieces |-> MovePieces(b.pieces, m),
     turn |-> ~b.turn,
     move_stack |-> Append(b.move_stack, m),
     stack |-> Append(b.stack, b.pieces)]

\* board.pop()
pop(b) ==
    [pieces |-> b.stack[Len(b.stack)],
     turn |-> ~b.turn,
     move_stack |-> SubSeq(b.move_stack, 1, Len(b.move_stack) - 1),
     stack |-> SubSeq(b.stack, 1, Len(b.stack) - 1)]

\* A board with the given placement (a set of <<file, rank, piece>>).
Board(placement, turn) ==
    [pieces |-> [s \in Squares |->
                    IF \E e \in placement : square(e[1], e[2]) = s
                    THEN (CHOOSE e \in placement : square(e[1], e[2]) = s)[3]
                    ELSE 0],
     turn |-> turn,
     move_stack |-> <<>>,
     stack |-> <<>>]

\* ------------------------------------------------------------- evaluation

RECURSIVE SumValues(_, _)
SumValues(b, kinds) ==
    IF kinds = {} THEN 0
    ELSE LET piece_type == CHOOSE t \in kinds : TRUE
         IN  PIECE_VALUES[piece_type]
                 * (pieces_count(b, piece_type, WHITE) - pieces_count(b, piece_type, BLACK))
             + SumValues(b, kinds \ {piece_type})

\* evaluate_board as its docstring has it: White's score whoever is to move.
evaluate_board_white(b) == SumValues(b, PieceTypes)

\* evaluate_board, lines 28-36.
evaluate_board(b) ==
    LET score == SumValues(b, PieceTypes)
    IN  IF b.turn = WHITE THEN score ELSE -score


\* ------------------------------------------------------------------ state

VARIABLES
    board,            \* the chess.Board the program works on
    frames,           \* call stack of get_best_move / minimax activations
    pc,               \* where the program is
    depth,            \* the depth argument of get_best_move
    result,           \* what get_best_move returned (ai_move)
    error,            \* the exception that ended the program, "" if none
    selected_square,  \* main's selected_square
    running,          \* main's running
    pending,          \* events of the current pygame.event.get() not yet handled
    entry,            \* history: the board when get_best_move was called
    pushes,           \* history: board.push calls made by the current search
    pops,             \* history: board.pop calls made by the current search
    cutoffs,          \* history: loops of the current search left by break
    root_values,      \* history: the values minimax returned to get_best_move
    event,            \* history: the event handled last, and the state it found
    movers            \* history: who committed each move, and whose turn it was

vars == <<board, frames, pc, depth, result, error, selected_square, running,
          pending, entry, pushes, pops, cutoffs, root_values, event, movers>>

search_history == <<entry, pushes, pops, cutoffs, root_values>>
session_vars == <<selected_square, running, pending, event, movers>>

\* selected_square: None
NoSquare == -1
player_color == WHITE
ai_depth == 2

Top == frames[Len(frames)]

\* ----------------------------------------------------------------- search

\* board.pseudo_legal_moves: moves that may leave the own king attacked.
pseudo_legal_moves(b) == SelectSeq(CandidateMoves, LAMBDA m : is_pseudo_legal(b, m))

\* The moves get_best_move iterates over.
RootMoves(b) == legal_moves(b)

\* GbmFrame with `best_move = chess.Move.null()` instead of None.
GbmFrameNullMove(b, d) ==
    [fn |-> "get_best_move", depth |-> d, alpha |-> -Inf, beta |-> Inf,
     maximizing |-> TRUE, moves |-> RootMoves(b), i |-> 1,
     best |-> -Inf, best_move |-> Move(0, 0, 0), at |-> "loop"]

\* GbmFrame with `best_value = 0` instead of -math.inf.
GbmFrameBestZero(b, d) ==
    [fn |-> "get_best_move", depth |-> d, alpha |-> -Inf, beta |-> Inf,
     maximizing |-> TRUE, moves |-> RootMoves(b), i |-> 1,
     best |-> 0, best_move |-> None, at |-> "loop"]

\* The activation of get_best_move(board, depth) at its loop head.
GbmFrame(b, d) ==
    [fn |-> "get_best_move", depth |-> d, alpha |-> -Inf, beta |-> Inf,
     maximizing |-> TRUE, moves |-> RootMoves(b), i |-> 1,
     best |-> -Inf, best_move |-> None, at |-> "loop"]

\* The activation of minimax(board, depth, alpha, beta, maximizing) on entry.
MinimaxFrame(d, alpha, beta, maximizing) ==
    [fn |-> "minimax", depth |-> d, alpha |-> alpha, beta |-> beta,
     maximizing |-> maximizing, moves |-> <<>>, i |-> 1,
     best |-> 0, best_move |-> None, at |-> "entry"]

\* The recursive call made with `depth` instead of `depth - 1`.
ChildCallSameDepth(f) ==
    IF f.fn = "get_best_move"
    THEN MinimaxFrame(f.depth, -Inf, Inf, FALSE)
    ELSE MinimaxFrame(f.depth, f.alpha, f.beta, ~f.maximizing)

\* The recursive call an activation makes for its current move.
ChildCall(f) ==
    IF f.fn = "get_best_move"
    THEN MinimaxFrame(f.depth - 1, -Inf, Inf, FALSE)
    ELSE MinimaxFrame(f.depth - 1, f.alpha, f.beta, ~f.maximizing)

\* RootStep with `value >= best_value`: the last of the best moves wins.
RootStepLastWins(f, value) ==
    [f EXCEPT !.best = IF value >= f.best THEN value ELSE @,
              !.best_move = IF value >= f.best THEN f.moves[f.i] ELSE @,
              !.i = @ + 1]

\* get_best_move's loop body after board.pop(), with the child's value.
RootStep(f, value) ==
    [f EXCEPT !.best = IF value > f.best THEN value ELSE @,
              !.best_move = IF value > f.best THEN f.moves[f.i] ELSE @,
              !.i = @ + 1]

\* MaxStep with the cutoff test reversed: `if alpha <= beta: break`.
MaxStepReversedCut(f, eval_score) ==
    LET max_eval == IF eval_score > f.best THEN eval_score ELSE f.best
        alpha == IF eval_score > f.alpha THEN eval_score ELSE f.alpha
    IN  [f EXCEPT !.best = max_eval, !.alpha = alpha, !.i = @ + 1,
                  !.at = IF alpha <= f.beta THEN "ret" ELSE "loop"]

\* The maximizing loop body after board.pop().
MaxStep(f, eval_score) ==
    LET max_eval == IF eval_score > f.best THEN eval_score ELSE f.best
        alpha == IF eval_score > f.alpha THEN eval_score ELSE f.alpha
    IN  [f EXCEPT !.best = max_eval, !.alpha = alpha, !.i = @ + 1,
                  !.at = IF f.beta <= alpha THEN "ret" ELSE "loop"]

\* MinStep with `beta = eval_score` instead of min(beta, eval_score).
MinStepAssignBeta(f, eval_score) ==
    LET min_eval == IF eval_score < f.best THEN eval_score ELSE f.best
        beta == eval_score
    IN  [f EXCEPT !.best = min_eval, !.beta = beta, !.i = @ + 1,
                  !.at = IF beta <= f.alpha THEN "ret" ELSE "loop"]

\* The minimizing loop body after board.pop().
MinStep(f, eval_score) ==
    LET min_eval == IF eval_score < f.best THEN eval_score ELSE f.best
        beta == IF eval_score < f.beta THEN eval_score ELSE f.beta
    IN  [f EXCEPT !.best = min_eval, !.beta = beta, !.i = @ + 1,
                  !.at = IF beta <= f.alpha THEN "ret" ELSE "loop"]

Resume(f, value) ==
    IF f.fn = "get_best_move" THEN RootStep(f, value)
    ELSE IF f.maximizing THEN MaxStep(f, value)
    ELSE MinStep(f, value)

\* The caller forgets board.pop().
NoPopAfterCall(b) == b

\* The board after the caller's board.pop() that follows a returned call.
PopAfterCall(b) == pop(b)

\* The top minimax activation returns `value`: its caller pops the move it
\* had pushed and runs the rest of its loop body.
ReturnValue(value) ==
    LET n == Len(frames)
        caller == Resume(frames[n - 1], value)
    IN  /\ frames' = [SubSeq(frames, 1, n - 1) EXCEPT ![n - 1] = caller]
        /\ board' = PopAfterCall(board)
        /\ pops' = pops + 1
        /\ cutoffs' = IF caller.at = "ret" THEN cutoffs + 1 ELSE cutoffs
        /\ root_values' = IF caller.fn = "get_best_move"
                          THEN Append(root_values, value) ELSE root_values
        /\ UNCHANGED <<pc, error, pushes>>

Raise(exception) ==
    /\ pc' = "raised"
    /\ error' = exception

\* The base case without its test of board.is_game_over().
BaseCaseDepthOnly(f, b) == f.depth = 0

\* minimax, line 40: `depth == 0 or board.is_game_over()`.
BaseCase(f, b) == f.depth = 0 \/ is_game_over(b)

\* minimax, line 40-41: the base case.
MinimaxBase ==
    /\ pc = "search"
    /\ Top.fn = "minimax" /\ Top.at = "entry"
    /\ BaseCase(Top, board)
    /\ ReturnValue(evaluate_board(board))
    /\ UNCHANGED <<depth, result, entry, session_vars>>

\* minimax, lines 43-45 and 56-58: the running best and the move iterator.
MinimaxEnterLoop ==
    /\ pc = "search"
    /\ Top.fn = "minimax" /\ Top.at = "entry"
    /\ ~BaseCase(Top, board)
    /\ frames' = [frames EXCEPT ![Len(frames)] =
                     [@ EXCEPT !.at = "loop",
                               !.moves = legal_moves(board),
                               !.best = IF Top.maximizing THEN -Inf ELSE Inf]]
    /\ UNCHANGED <<board, pc, depth, result, error, search_history, session_vars>>

\* The loop head with a move left: board.push(move) and the recursive call.
LoopPush ==
    /\ pc = "search"
    /\ Top.at = "loop" /\ Top.i <= Len(Top.moves)
    /\ board' = push(board, Top.moves[Top.i])
    /\ pushes' = pushes + 1
    /\ IF Len(frames) + 1 > RecursionLimit
       THEN Raise("RecursionError") /\ UNCHANGED frames
       ELSE frames' = Append(frames, ChildCall(Top)) /\ UNCHANGED <<pc, error>>
    /\ UNCHANGED <<depth, result, entry, pops, cutoffs, root_values, session_vars>>

\* minimax, lines 55 and 68: the loop ended (exhausted or cut off).
MinimaxReturn ==
    /\ pc = "search"
    /\ Top.fn = "minimax"
    /\ Top.at = "ret" \/ (Top.at = "loop" /\ Top.i > Len(Top.moves))
    /\ IF Abs(Top.best) = Inf
       THEN /\ Raise("OverflowError")
            /\ UNCHANGED <<board, frames, pushes, pops, cutoffs, root_values>>
       ELSE ReturnValue(Top.best)
    /\ UNCHANGED <<depth, result, entry, session_vars>>

\* get_best_move, line 81.
GetBestMoveReturn ==
    /\ pc = "search"
    /\ Top.fn = "get_best_move"
    /\ Top.i > Len(Top.moves)
    /\ result' = Top.best_move
    /\ frames' = <<>>
    /\ pc' = "returned"
    /\ UNCHANGED <<board, depth, error, search_history, session_vars>>

SearchStep ==
    \/ MinimaxBase
    \/ MinimaxEnterLoop
    \/ LoopPush
    \/ MinimaxReturn
    \/ GetBestMoveReturn

\* get_best_move(board, d) is entered.
CallGetBestMove(d) ==
    /\ frames' = <<GbmFrame(board, d)>>
    /\ depth' = d
    /\ entry' = board
    /\ pushes' = 0
    /\ pops' = 0
    /\ cutoffs' = 0
    /\ root_values' = <<>>
    /\ pc' = "search"

\* --------------------------------------------------------- search harness

WK == Piece(KING, WHITE)
BK == Piece(KING, BLACK)

\* Both kings once, no pawn on a back rank, the side that just moved not in check.
IsValidBoard(b) ==
    /\ Cardinality({s \in Squares : b.pieces[s] = WK}) = 1
    /\ Cardinality({s \in Squares : b.pieces[s] = BK}) = 1
    /\ \A s \in Squares :
         Abs(b.pieces[s]) = PAWN => square_rank(s) \notin {0, Ranks - 1}
    /\ ~in_check(b.pieces, ~b.turn)

WhiteExtras == {ROOK, KNIGHT, PAWN}
BlackExtras == {-QUEEN, -KNIGHT, -PAWN, 0}
WhiteExtraSquares == {square(1, 0), square(0, 1)}
BlackExtraSquares == {square(Files - 2, Ranks - 1), square(Files - 1, Ranks - 2)}

\* The only capture takes an undefended queen: Rc1xc2.
FreeCapturePosition == Board({<<0, 0, WK>>, <<2, 0, ROOK>>, <<2, 1, -QUEEN>>, <<0, 2, BK>>}, WHITE)
\* Black is checkmated on the board of 3 x 3 squares.
MatedPosition == Board({<<1, 0, WK>>, <<2, 2, ROOK>>, <<0, 2, BK>>}, BLACK)

\* The positions get_best_move is called on: king and at most one piece each.
SearchPositions ==
    {FreeCapturePosition, MatedPosition} \cup
    {b \in {Board({<<0, 0, WK>>, <<Files - 1, Ranks - 1, BK>>,
                   <<square_file(ws), square_rank(ws), wp>>,
                   <<square_file(bs), square_rank(bs), bp>>}, t) :
              wp \in WhiteExtras, ws \in WhiteExtraSquares,
              bp \in BlackExtras, bs \in BlackExtraSquares, t \in BOOLEAN} :
        IsValidBoard(b)}

NoEvent(b) == [type |-> "none", square |-> NoSquare, selected |-> NoSquare, board |-> b]

InitSearch ==
    /\ board \in SearchPositions
    /\ depth \in 0 .. MaxDepth
    /\ frames = <<>>
    /\ pc = "call"
    /\ result = None
    /\ error = ""
    /\ selected_square = NoSquare
    /\ running = TRUE
    /\ pending = 0
    /\ entry = board
    /\ pushes = 0
    /\ pops = 0
    /\ cutoffs = 0
    /\ root_values = <<>>
    /\ event = NoEvent(board)
    /\ movers = <<>>

HarnessCall ==
    /\ pc = "call"
    /\ CallGetBestMove(depth)
    /\ UNCHANGED <<board, result, error, session_vars>>

NextSearch == HarnessCall \/ SearchStep

SpecSearch == InitSearch /\ [][NextSearch]_vars

\* ------------------------------------------------------------ session loop

\* The arrangements a session starts from: White (the human) to move.
\* a pawn one step from promotion
StartPromotion == Board({<<0, 0, WK>>, <<0, 1, PAWN>>, <<2, 2, BK>>}, WHITE)
\* a rook move that checkmates
StartMate == Board({<<1, 0, WK>>, <<2, 0, ROOK>>, <<0, 2, BK>>}, WHITE)
\* a lone pawn the black king can take
StartCapture == Board({<<0, 0, WK>>, <<2, 1, PAWN>>, <<2, 2, BK>>}, WHITE)

StartPositions == {StartPromotion, StartMate, StartCapture}

Init ==
    /\ board \in StartPositions
    /\ depth = ai_depth
    /\ frames = <<>>
    /\ pc = "poll"
    /\ result = None
    /\ error = ""
    /\ selected_square = NoSquare
    /\ running = TRUE
    /\ pending = 0
    /\ entry = board
    /\ pushes = 0
    /\ pops = 0
    /\ cutoffs = 0
    /\ root_values = <<>>
    /\ event = NoEvent(board)
    /\ movers = <<>>

\* The click handler without its test of the side to move.
ClickAcceptedAlways(b) == TRUE

\* line 150: the click is handled at all
ClickAccepted(b) == b.turn = player_color

\* The origin test without the colour: `if piece:`.
ClickSelectedAnyPiece(b, selected, sq) ==
    IF selected = NoSquare
    THEN IF piece_at(b, sq) # 0 THEN sq ELSE selected
    ELSE NoSquare

\* The selection is cleared only when the destination is refused.
ClickSelectedKeptAfterMove(b, selected, sq) ==
    IF selected = NoSquare
    THEN IF piece_at(b, sq) # 0 /\ color_of(piece_at(b, sq)) = player_color
         THEN sq ELSE selected
    ELSE IF in_legal_moves(b, Move(selected, sq, 0)) THEN selected ELSE NoSquare

\* A destination that is not a legal move is taken as the new origin.
ClickSelectedReselect(b, selected, sq) ==
    IF piece_at(b, sq) # 0 /\ color_of(piece_at(b, sq)) = player_color
       /\ ~(selected # NoSquare /\ in_legal_moves(b, Move(selected, sq, 0)))
    THEN sq
    ELSE IF selected = NoSquare THEN selected ELSE NoSquare

\* lines 156-164: selected_square after a handled click on `sq`
ClickSelected(b, selected, sq) ==
    IF selected = NoSquare
    THEN IF piece_at(b, sq) # 0 /\ color_of(piece_at(b, sq)) = player_color
         THEN sq ELSE selected
    ELSE NoSquare

\* lines 160-163: the board after a handled click on `sq`
ClickBoard(b, selected, sq) ==
    IF selected # NoSquare /\ in_legal_moves(b, Move(selected, sq, 0))
    THEN push(b, Move(selected, sq, 0))
    ELSE b

\* The engine step without its test of board.is_game_over().
EngineTurnEvenIfOver(b) == b.turn # player_color

\* The engine step without its test of the side to move.
EngineTurnAnySide(b) == ~is_game_over(b)

\* line 167: the engine moves now
EngineTurn(b) == b.turn # player_color /\ ~is_game_over(b)

\* line 190: the session ends now
SessionOver(b) == is_game_over(b)

Mover(who, b) == [who |-> who, turn |-> b.turn]

\* line 145: pygame.event.get() at the top of `while running`
Poll ==
    /\ pc = "poll"
    /\ Len(board.move_stack) < MaxPly
    /\ pending' \in 0 .. MaxEvents
    /\ pc' = "events"
    /\ event' = NoEvent(board)
    /\ UNCHANGED <<board, frames, depth, result, error, selected_square, running,
                   movers, search_history>>

\* lines 146-148: a QUIT event ends the loop over the events
EventQuit ==
    /\ pc = "events" /\ pending > 0
    /\ running' = FALSE
    /\ pending' = 0
    /\ pc' = "ai"
    /\ event' = [type |-> "quit", square |-> NoSquare,
                 selected |-> selected_square, board |-> board]
    /\ UNCHANGED <<board, frames, depth, result, error, selected_square,
                   movers, search_history>>

\* lines 150-164: a MOUSEBUTTONDOWN event with the pointer on `sq`
EventMouseDown(sq) ==
    /\ pc = "events" /\ pending > 0
    /\ pending' = pending - 1
    /\ event' = [type |-> "click", square |-> sq,
                 selected |-> selected_square, board |-> board]
    /\ IF ClickAccepted(board)
       THEN /\ board' = ClickBoard(board, selected_square, sq)
            /\ selected_square' = ClickSelected(board, selected_square, sq)
            /\ movers' = IF board' # board
                         THEN Append(movers, Mover("human", board)) ELSE movers
       ELSE UNCHANGED <<board, selected_square, movers>>
    /\ UNCHANGED <<frames, pc, depth, result, error, running, search_history>>

\* any other event type
EventOther ==
    /\ pc = "events" /\ pending > 0
    /\ pending' = pending - 1
    /\ event' = [type |-> "other", square |-> NoSquare,
                 selected |-> selected_square, board |-> board]
    /\ UNCHANGED <<board, frames, pc, depth, result, error, selected_square,
                   running, movers, search_history>>

\* the loop over the events is exhausted
EventsDone ==
    /\ pc = "events" /\ pending = 0
    /\ pc' = "ai"
    /\ event' = NoEvent(board)
    /\ UNCHANGED <<board, frames, depth, result, error, selected_square, running,
                   pending, movers, search_history>>

\* lines 167-169: the engine's turn starts a search, or is skipped
AIStep ==
    /\ pc = "ai"
    /\ event' = NoEvent(board)
    /\ IF EngineTurn(board)
       THEN CallGetBestMove(ai_depth)
       ELSE /\ pc' = "end"
            /\ UNCHANGED <<frames, depth, search_history>>
    /\ UNCHANGED <<board, result, error, selected_square, running, pending, movers>>

\* lines 170-171: the engine's move is applied
AICommit ==
    /\ pc = "returned"
    /\ IF result # None
       THEN /\ board' = push(board, result)
            /\ movers' = Append(movers, Mover("engine", board))
       ELSE UNCHANGED <<board, movers>>
    /\ pc' = "end"
    /\ UNCHANGED <<frames, depth, result, error, selected_square, running,
                   pending, event, search_history>>

\* lines 190-194 and the loop condition of line 144
EndDetection ==
    /\ pc = "end"
    /\ running' = IF SessionOver(board) THEN FALSE ELSE running
    /\ pc' = IF running' THEN "poll" ELSE "exited"
    /\ UNCHANGED <<board, frames, depth, result, error, selected_square,
                   pending, event, movers, search_history>>

Next ==
    \/ Poll
    \/ EventQuit
    \/ \E sq \in Squares : EventMouseDown(sq)
    \/ EventOther
    \/ EventsDone
    \/ AIStep
    \/ SearchStep
    \/ AICommit
    \/ EndDetection

Spec == Init /\ [][Next]_vars

\* One engine turn of main (lines 167-172) taken on any position of the
\* search harness and at any depth: the call, the search, and the commit.
NextEngineTurn == HarnessCall \/ SearchStep \/ AICommit

SpecEngineTurn == InitSearch /\ [][NextEngineTurn]_vars

\* -------------------------------------------------- reference definitions

SetMax(S) == CHOOSE x \in S : \A y \in S : y <= x
SetMin(S) == CHOOSE x \in S : \A y \in S : x <= y

\* Minimax that visits every legal move of every node: no window, no cutoff.
RECURSIVE Exhaustive(_, _, _)
Exhaustive(b, d, maximizing) ==
    IF d = 0 \/ is_game_over(b) THEN evaluate_board(b)
    ELSE LET ms == legal_moves(b)
             values == {Exhaustive(push(b, ms[i]), d - 1, ~maximizing) : i \in DOMAIN ms}
         IN  IF maximizing THEN SetMax(values) ELSE SetMin(values)

\* The root loop of get_best_move over the exhaustive values.
RECURSIVE ExhaustiveRoot(_, _, _, _, _, _)
ExhaustiveRoot(b, d, ms, i, best_value, best_move) ==
    IF i > Len(ms) THEN best_move
    ELSE LET value == Exhaustive(push(b, ms[i]), d - 1, FALSE)
         IN  IF value > best_value
             THEN ExhaustiveRoot(b, d, ms, i + 1, value, ms[i])
             ELSE ExhaustiveRoot(b, d, ms, i + 1, best_value, best_move)

ExhaustiveBestMove(b, d) == ExhaustiveRoot(b, d, legal_moves(b), 1, -Inf, None)

Range(seq) == {seq[i] : i \in DOMAIN seq}

\* The capture m takes an enemy queen that nothing defends, and every other
\* legal move neither captures nor promotes.
FreeCapture(b, m) ==
    /\ in_legal_moves(b, m)
    /\ b.pieces[m.to_square] = Piece(QUEEN, ~b.turn)
    /\ ~is_attacked_by(MovePieces(b.pieces, m), ~b.turn, m.to_square)
    /\ \A o \in Range(legal_moves(b)) :
         o # m => b.pieces[o.to_square] = 0 /\ o.promotion = 0

\* ------------------------------------------------------------------ claims

\* C1. Position integrity: when get_best_move returns from a call with
\* depth >= 1 the board has the piece placement, side to move and move-stack
\* length it had at the call; during the search every activation above the
\* root holds exactly one push not yet popped, and at the return every push
\* has been popped, cutoff exits included.
PositionIntegrity ==
    /\ (pc = "search" /\ depth >= 1) =>
          /\ pushes - pops = Len(frames) - 1
          /\ Len(board.move_stack) = Len(entry.move_stack) + Len(frames) - 1
    /\ (pc = "returned" /\ depth >= 1) =>
          /\ board.pieces = entry.pieces
          /\ board.turn = entry.turn
          /\ Len(board.move_stack) = Len(entry.move_stack)
          /\ pushes = pops

\* A search that was cut off at least once has returned.
PositionIntegrityWitness ==
    /\ pc = "returned" /\ depth >= 1
    /\ cutoffs > 0 /\ pushes > cutoffs
    /\ board = entry

\* C2. Alpha-beta equivalence: the move get_best_move returns at depth >= 1
\* is the move its root loop returns over exhaustive minimax values.
AlphaBetaEquivalence ==
    (pc = "returned" /\ depth >= 1) => result = ExhaustiveBestMove(entry, depth)

\* A search with cutoffs returned a move.
AlphaBetaEquivalenceWitness ==
    /\ pc = "returned" /\ depth >= 1
    /\ cutoffs > 0
    /\ result # None
    /\ result = ExhaustiveBestMove(entry, depth)

\* C3. Free capture at depth 1: when exactly one legal move takes an
\* undefended queen and no other legal move changes material,
\* get_best_move(board, 1) returns the capture.
FreeCaptureAtDepthOne ==
    (pc = "returned" /\ depth = 1) =>
        \A m \in Range(legal_moves(entry)) : FreeCapture(entry, m) => result = m

\* C4. Legality of output: a move returned at depth >= 1 is a legal move of
\* the position get_best_move was called on.
LegalityOfOutput ==
    (pc = "returned" /\ depth >= 1 /\ result # None) => in_legal_moves(entry, result)

\* A move was returned for a position in which some pseudo-legal move is not legal.
LegalityOfOutputWitness ==
    /\ pc = "returned" /\ depth >= 1
    /\ result # None
    /\ in_legal_moves(entry, result)
    /\ \E i \in DOMAIN CandidateMoves :
         is_pseudo_legal(entry, CandidateMoves[i]) /\ ~is_legal(entry, CandidateMoves[i])

\* C5. Tie-break by enumeration order: get_best_move returns the first move,
\* in legal-move order, among the root moves whose computed value is maximal;
\* when all root values are equal that is the first legal move.
TieBreakByOrder ==
    (pc = "returned" /\ depth >= 1) =>
        LET ms == legal_moves(entry)
        IN  /\ Len(root_values) = Len(ms)
            /\ ms # <<>> =>
                 LET top == SetMax(Range(root_values))
                     first == CHOOSE i \in DOMAIN ms :
                                 /\ root_values[i] = top
                                 /\ \A j \in 1 .. (i - 1) : root_values[j] # top
                 IN  result = ms[first]

\* Depth 1, several root moves, all of one value: the first legal move is returned.
TieBreakByOrderWitness ==
    /\ pc = "returned" /\ depth = 1
    /\ Len(root_values) >= 2
    /\ \A i \in DOMAIN root_values : root_values[i] = root_values[1]
    /\ result = legal_moves(entry)[1]

\* The position main works on is game-over (inside a search the board is
\* the search's own).
Terminal == pc # "search" /\ is_game_over(board)

\* The steps main still takes in the current iteration of its loop.
StepsLeft ==
    CASE pc = "events" -> pending + 3
      [] pc = "ai" -> 2
      [] pc = "end" -> 1
      [] OTHER -> 0

\* C6. Terminal is absorbing: once the position is game-over no step changes
\* the board or selected_square (no click and no engine step pushes a move),
\* no search is started and no events are fetched again, and the session
\* loop ends: every step is one of the few left in the running iteration,
\* and a step can be taken until the loop has exited.
TerminalIsAbsorbing ==
    /\ [](Terminal => pc \in {"events", "ai", "end", "exited"})
    /\ []((Terminal /\ pc # "exited") => ENABLED Next)
    /\ [][Terminal => /\ board' = board
                      /\ selected_square' = selected_square
                      /\ StepsLeft' < StepsLeft]_vars

\* A click arrived after the game was over and changed nothing.
TerminalIsAbsorbingWitness ==
    /\ event.type = "click"
    /\ is_game_over(event.board)
    /\ board = event.board
    /\ selected_square = event.selected

\* C7. Illegal destination: a click while an origin is pending, on a square
\* that with the origin is not a legal move, clears the pending origin and
\* leaves the board unchanged; the clicked square does not become the origin.
IllegalDestination ==
    (/\ event.type = "click"
     /\ event.selected # NoSquare
     /\ ~in_legal_moves(event.board, Move(event.selected, event.square, 0))) =>
        (selected_square = NoSquare /\ board = event.board)

\* An illegal destination click on a square that holds a human piece.
IllegalDestinationWitness ==
    /\ event.type = "click"
    /\ event.selected # NoSquare
    /\ ClickAccepted(event.board)
    /\ ~in_legal_moves(event.board, Move(event.selected, event.square, 0))
    /\ piece_at(event.board, event.square) > 0
    /\ event.square # event.selected
    /\ selected_square = NoSquare
    /\ board = event.board

\* The legal moves from `from` to `to`, whatever promotion piece they carry.
MovesBetween(b, from, to) ==
    {m \in Range(legal_moves(b)) : m.from_square = from /\ m.to_square = to}

\* C8. Legal destination is applied: a click on the human's turn, with an
\* origin pending, on a square the legal-move set reaches from the origin
\* (promotions included) applies such a move, clears the pending origin and
\* passes the turn.
LegalDestinationApplied ==
    (/\ event.type = "click"
     /\ ClickAccepted(event.board)
     /\ event.selected # NoSquare
     /\ MovesBetween(event.board, event.selected, event.square) # {}) =>
        /\ \E m \in MovesBetween(event.board, event.selected, event.square) :
             board = push(event.board, m)
        /\ selected_square = NoSquare
        /\ board.turn # player_color

\* C9. Strict alternation: the click handler commits a move only when the
\* human side is to move, the engine step only when the engine side is to
\* move, no two consecutive committed moves are by the same side, and every
\* move on the board outside a search is a committed one.
StrictAlternation ==
    /\ \A i \in DOMAIN movers :
         (movers[i].who = "human") = (movers[i].turn = player_color)
    /\ \A i \in 1 .. (Len(movers) - 1) : movers[i].who # movers[i + 1].who
    /\ pc # "search" => Len(board.move_stack) = Len(movers)

\* Human, engine and human have moved, and a click that came in the same
\* batch as the human's move was ignored.
StrictAlternationWitness ==
    /\ Len(movers) >= 3
    /\ event.type = "click"
    /\ ~ClickAccepted(event.board)
    /\ board = event.board

\* C10. Precondition guard: get_best_move called with depth 0 or on a
\* game-over position is refused: it performs no search (pushes no move) and
\* returns no move.
PreconditionGuard ==
    (depth = 0 \/ is_game_over(entry)) =>
        (pushes = 0 /\ (pc = "returned" => result = None))

\* ------------------------------------------------------------------- C11

\* C11 (No-moves case): when get_best_move is called with depth >= 1 on a
\* position that has no legal move, it returns None, it makes no push at
\* all, and the board it leaves is the board it was given.
NoMovesCase ==
    (depth >= 1 /\ pc \in {"search", "returned", "raised"} /\ ~has_legal_move(entry)) =>
        /\ pc # "raised"
        /\ pushes = 0
        /\ board = entry
        /\ pc = "returned" => result = None

NoMovesCaseWitness ==
    /\ pc = "returned"
    /\ depth >= 1
    /\ legal_moves(entry) = <<>>
    /\ in_check(entry.pieces, entry.turn)
    /\ result = None
    /\ board = entry

\* ------------------------------------------------------------------- C12

\* C12 (Search never fails on valid input): called with depth >= 1 on a
\* position that is not game over, get_best_move raises nothing and returns
\* a move, never None; the engine turn then commits exactly that one move
\* and the turn passes to the other side.
SearchNeverFails ==
    (depth >= 1 /\ ~is_game_over(entry) /\ pc \in {"search", "returned", "raised", "end"}) =>
        /\ pc # "raised"
        /\ pc \in {"returned", "end"} =>
               (result # None /\ in_legal_moves(entry, result))
        /\ pc = "end" =>
               /\ board = push(entry, result)
               /\ board.turn # entry.turn
               /\ movers = <<Mover("engine", entry)>>

SearchNeverFailsWitness ==
    /\ pc = "end"
    /\ depth >= 1
    /\ ~is_game_over(entry)
    /\ \A i \in DOMAIN root_values : root_values[i] < 0
    /\ board = push(entry, result)
    /\ Len(movers) = 1

\* ------------------------------------------------------------------- C13

\* The pieces `p` on the board, counted square by square.
CountOn(b, p) == Cardinality({s \in Squares : piece_at(b, s) = p})

\* White's material minus Black's, kind by kind.
MaterialBalance(b) ==
      100 * (CountOn(b, PAWN) - CountOn(b, -PAWN))
    + 320 * (CountOn(b, KNIGHT) - CountOn(b, -KNIGHT))
    + 330 * (CountOn(b, BISHOP) - CountOn(b, -BISHOP))
    + 500 * (CountOn(b, ROOK) - CountOn(b, -ROOK))
    + 900 * (CountOn(b, QUEEN) - CountOn(b, -QUEEN))
    + 20000 * (CountOn(b, KING) - CountOn(b, -KING))

HumanPieceAt(b, sq) == piece_at(b, sq) # 0 /\ color_of(piece_at(b, sq)) = player_color

\* C14 (Origin click no-op): after a click handled on the human's turn with
\* no origin pending, the board is the board the click found; the pending
\* origin is the clicked square if that square held a human piece, and is
\* still None if the square was empty or held an engine piece.
OriginClickNoOp ==
    (event.type = "click" /\ event.selected = NoSquare
                          /\ event.board.turn = player_color) =>
        /\ board = event.board
        /\ selected_square = IF HumanPieceAt(event.board, event.square)
                              THEN event.square ELSE NoSquare

OriginClickNoOpWitness ==
    /\ event.type = "click"
    /\ event.selected = NoSquare
    /\ event.board.turn = player_color
    /\ piece_at(event.board, event.square) < 0
    /\ selected_square = NoSquare
    /\ board = event.board

\* ------------------------------------------------------------------- C15

\* The material advantage of the side `root_color` on the board `b`.
RootSideScore(b, root_color) ==
    IF root_color = WHITE THEN MaterialBalance(b) ELSE -MaterialBalance(b)

\* Depth-limited minimax whose leaf scores are all measured for `root_color`.
RECURSIVE RootSideMinimax(_, _, _, _)
RootSideMinimax(b, d, maximizing, root_color) ==
    IF d = 0 \/ is_game_over(b) THEN RootSideScore(b, root_color)
    ELSE LET moves == legal_moves(b)
             values == {RootSideMinimax(push(b, moves[i]), d - 1, ~maximizing, root_color) :
                           i \in DOMAIN moves}
         IN  IF maximizing THEN SetMax(values) ELSE SetMin(values)

\* The value of the root move `m` for the side to move on `b`.
RootSideValue(b, d, m) == RootSideMinimax(push(b, m), d - 1, FALSE, b.turn)

\* C15 (Search maximizes the searching side's score): for every depth >= 1,
\* odd or even, the move get_best_move returns has, among all root moves,
\* the greatest depth-limited minimax value when leaf scores are the
\* material advantage of the side to move at the root.
SearchMaximizesRootSide ==
    (pc = "returned" /\ depth >= 1 /\ ~is_game_over(entry)) =>
        /\ result # None
        /\ \A i \in DOMAIN legal_moves(entry) :
               RootSideValue(entry, depth, result)
                   >= RootSideValue(entry, depth, legal_moves(entry)[i])

\* ------------------------------------------------------------------- C16

\* C16 (Search never started on a terminal position): in the session a
\* search is running or has returned only for a position with the engine
\* to move that is not game over; when the engine's turn comes on a position
\* that is game over, no search runs and no engine move is made (the last
\* committed move is the human's), and the session does not poll again.
SearchNotStartedOnTerminal ==
    /\ pc \in {"search", "returned"} =>
           (entry.turn # player_color /\ ~is_game_over(entry))
    /\ (pc # "search" /\ board.turn # player_color /\ is_game_over(board)) =>
           /\ pc \in {"events", "ai", "end", "exited"}
           /\ movers # <<>>
           /\ movers[Len(movers)].who = "human"

SearchNotStartedOnTerminalWitness ==
    /\ pc = "exited"
    /\ board.turn # player_color
    /\ is_game_over(board)
    /\ movers[Len(movers)].who = "human"
    /\ Len(movers) = Len(board.move_stack)

\* ------------------------------------------------------------------- C17

\* No position of the model has more legal moves than this: the side to
\* move has at most three pieces, and a piece has fewer moves than the board
\* has squares, or the twelve of a promoting pawn.
Branching == 4 * Files * Ranks

\* Steps a call of minimax at depth `d` takes at most.
RECURSIVE CallWork(_)
CallWork(d) ==
    IF d <= 0 THEN 1 ELSE 2 + Branching * (1 + CallWork(d - 1))

\* Steps the activation `f` still takes itself or through calls it has yet
\* to make; `f` is the running activation iff `is_top`.
FrameWork(f, is_top) ==
    IF f.at = "entry" THEN CallWork(f.depth)
    ELSE IF f.at = "ret" THEN 1
    ELSE (Len(f.moves) - f.i + (IF is_top THEN 1 ELSE 0)) * (1 + CallWork(f.depth - 1)) + 1

RECURSIVE StackWork(_)
StackWork(k) ==
    IF k = 0 THEN 0 ELSE FrameWork(frames[k], k = Len(frames)) + StackWork(k - 1)

\* A bound on the steps left until get_best_move has returned.
WorkLeft ==
    IF pc = "call" THEN 2 + Branching * (1 + CallWork(depth - 1))
    ELSE IF pc = "search" THEN StackWork(Len(frames))
    ELSE 0

\* The guards of HarnessCall and of the steps of the search: one of them
\* holds, so the call is not stuck.
SearchCanStep ==
    \/ pc = "call"
    \/ /\ pc = "search"
       /\ frames # <<>>
       /\ \/ Top.fn = "minimax" /\ Top.at = "entry"
          \/ Top.at = "loop" /\ Top.i <= Len(Top.moves)
          \/ Top.fn = "minimax" /\ Top.at = "ret"
          \/ Top.fn = "minimax" /\ Top.at = "loop" /\ Top.i > Len(Top.moves)
          \/ Top.fn = "get_best_move" /\ Top.i > Len(Top.moves)

\* C17 (Search termination): called with depth >= 1, get_best_move returns
\* after finitely many steps: it raises nothing, one of its steps applies
\* until it has returned, and every step lowers a non-negative bound on the
\* steps left.  At every moment of the search the moves pushed and not yet
\* popped are at most `depth`.
SearchTermination ==
    /\ [](depth >= 1 => (pushes - pops >= 0 /\ pushes - pops <= depth))
    /\ [](depth >= 1 => pc # "raised")
    /\ []((depth >= 1 /\ pc # "returned") => SearchCanStep)
    /\ [][depth >= 1 => (WorkLeft' >= 0 /\ WorkLeft' < WorkLeft)]_vars

SearchTerminationWitness ==
    /\ pc = "search"
    /\ depth = MaxDepth
    /\ pushes - pops = depth
    /\ Len(board.move_stack) = Len(entry.move_stack) + depth
    /\ WorkLeft > 0

\* ------------------------------------------------------------------- C18

\* The window the activation frames[k] (k >= 2) was called with: its caller
\* is suspended during the call, so the caller's alpha and beta are still
\* the arguments it passed (for get_best_move: -inf and +inf).
ReceivedAlpha(k) == frames[k - 1].alpha
ReceivedBeta(k) == frames[k - 1].beta

\* C18 (Window monotonicity): in no step does the alpha of a minimax
\* activation decrease or its beta increase, and the window an activation
\* passes to a child lies within the window it received itself.
WindowMonotonicity ==
    /\ [][\A k \in DOMAIN frames \cap DOMAIN frames' :
              frames[k].fn = "minimax" =>
                  /\ frames'[k].alpha >= frames[k].alpha
                  /\ frames'[k].beta <= frames[k].beta]_vars
    /\ [](\A k \in 2 .. (Len(frames) - 1) :
              /\ ReceivedAlpha(k) <= ReceivedAlpha(k + 1)
              /\ ReceivedBeta(k + 1) <= ReceivedBeta(k))

WindowMonotonicityWitness ==
    /\ pc = "search"
    /\ \E k \in 2 .. (Len(frames) - 1) :
           /\ frames[k].fn = "minimax"
           /\ frames[k + 1].at = "entry"
           /\ ReceivedBeta(k + 1) < ReceivedBeta(k)
           /\ ReceivedAlpha(k + 1) >= ReceivedAlpha(k)

\* ------------------------------------------------------------------- C19

\* C19 (Pending-origin invariant): whenever selected_square is set, no
\* search is running, the human side is to move, the position is not game
\* over, and the selected square holds a piece of the human side.
PendingOriginInvariant ==
    selected_square # NoSquare =>
        /\ pc # "search"
        /\ board.turn = player_color
        /\ ~is_game_over(board)
        /\ HumanPieceAt(board, selected_square)

PendingOriginInvariantWitness ==
    /\ selected_square # NoSquare
    /\ Len(board.move_stack) >= 2
    /\ movers[Len(movers)].who = "engine"
    /\ HumanPieceAt(board, selected_square)

\* ------------------------------------------------------------------- C20

\* The minimax activation `f` is at or past a point where its running best
\* is used: a cutoff, the return, or any loop round after the first.
BestInUse(f) == f.at = "ret" \/ (f.at = "loop" /\ f.i > 1)

\* C20 (Finite scores): every value a minimax invocation returns is a
\* finite integer; an invocation that has entered its loop has at least
\* one legal move to iterate, its running best is finite from the first
\* round on, and int() is never applied to an infinity (no OverflowError).
FiniteScores ==
    /\ error # "OverflowError"
    /\ \A i \in DOMAIN root_values : Abs(root_values[i]) < Inf
    /\ \A k \in DOMAIN frames :
           frames[k].fn = "minimax" =>
               /\ frames[k].at \in {"loop", "ret"} => Len(frames[k].moves) >= 1
               /\ BestInUse(frames[k]) => Abs(frames[k].best) < Inf
    /\ (pc = "search" /\ Top.fn = "minimax" /\ Top.at = "entry") =>
           Abs(evaluate_board(board)) < Inf

FiniteScoresWitness ==
    /\ pc = "search"
    /\ Top.fn = "minimax" /\ Top.at = "entry"
    /\ Top.depth >= 1
    /\ ~has_legal_move(board)
    /\ \E k \in DOMAIN frames : frames[k].fn = "minimax" /\ BestInUse(frames[k])

=============================================================================
